---- MODULE Spec2Model ----
(***************************************************************************)
(* Model of the Cortex backend: the local vector store                     *)
(* (backend/services/vector_store.py), the ingestion endpoints             *)
(* (backend/api/ingest.py), the normaliser                                 *)
(* (backend/services/normalizer.py) and the conversation delete endpoint   *)
(* (backend/api/chats.py).                                                 *)
(***************************************************************************)
EXTENDS Integers, Sequences, FiniteSets, TLC

(***************************************************************************)
(* Bounds                                                                  *)
(***************************************************************************)
\* number of store calls the threads of SpecVS make in total
MaxOps == 2
\* threads calling the vector store in SpecVS
NumThreads == 2

Threads == 1..NumThreads
NoThread == 0

(***************************************************************************)
(* Values stored in the vector index                                       *)
(***************************************************************************)
\* a Python dict used as metadata is a set of <<key, value>> pairs;
\* an Optional argument is a sequence of length 0 (None) or 1
EmptyDict == {}
None == <<>>
Some(x) == <<x>>

\* ids, documents, vectors and metadata the SpecVS threads pass to upsert
VSIds == {1, 2}
VSUpsertArgs ==
    { [id |-> i, document |-> "d1", embedding |-> <<1, 0>>, metadata |-> None] : i \in VSIds }
    \cup
    { [id |-> i, document |-> "d2", embedding |-> <<0, 1>>,
       metadata |-> Some({<<"title", "t2">>})] : i \in VSIds }
VSQueries == { <<1, 0>>, <<1, 1>> }

(***************************************************************************)
(* The ordered dict self._data: a sequence of entries without duplicate    *)
(* ids, in insertion order (Python dicts keep insertion order).            *)
(***************************************************************************)
Keys(d) == [i \in 1..Len(d) |-> d[i].id]
KeySet(d) == { d[i].id : i \in 1..Len(d) }
Has(d, id) == id \in KeySet(d)
IndexOf(d, id) == CHOOSE i \in 1..Len(d) : d[i].id = id
Get(d, id) == d[IndexOf(d, id)]

\* self._data[conversation_id] = {...}: replaces in place or appends
DictPut(d, e) ==
    IF Has(d, e.id)
    THEN [i \in 1..Len(d) |-> IF d[i].id = e.id THEN e ELSE d[i]]
    ELSE Append(d, e)

\* self._data.pop(conversation_id, None)
DictPopKeeping(d, id) == d
DictPop(d, id) == SelectSeq(d, LAMBDA e : e.id # id)

\* metadata or {}
MetaOrEmpty(m) == IF m = None THEN EmptyDict ELSE m[1]

MakeEntry(a) ==
    [id |-> a.id, document |-> a.document, embedding |-> a.embedding,
     metadata |-> MetaOrEmpty(a.metadata)]

(***************************************************************************)
(* The snapshot file: absent, unparsable, or a JSON object whose members   *)
(* are <<key, <<document, embedding, metadata>>>> in the order written.    *)
(***************************************************************************)
AbsentFile == [state |-> "absent", members |-> <<>>]
CorruptFile == [state |-> "corrupt", members |-> <<>>]

\* json.dump(self._data, f)
DumpJsonDropLast(d) ==
    [state |-> "ok",
     members |-> [i \in 1..(IF Len(d) > 0 THEN Len(d) - 1 ELSE 0) |->
                    <<d[i].id, <<d[i].document, d[i].embedding, d[i].metadata>>>>]]
DumpJson(d) ==
    [state |-> "ok",
     members |-> [i \in 1..Len(d) |->
                    <<d[i].id, <<d[i].document, d[i].embedding, d[i].metadata>>>>]]

\* json.load: builds the dict member by member, a repeated key overwrites
RECURSIVE LoadMembers(_, _)
LoadMembers(ms, acc) ==
    IF ms = <<>> THEN acc
    ELSE LoadMembers(Tail(ms),
            DictPut(acc, [id |-> Head(ms)[1], document |-> Head(ms)[2][1],
                          embedding |-> Head(ms)[2][2], metadata |-> Head(ms)[2][3]]))

\* VectorStoreService._load
Load(f) == IF f.state = "ok" THEN LoadMembers(f.members, <<>>) ELSE <<>>

(***************************************************************************)
(* Cosine similarity and ranking of VectorStoreService.search.  A score is *)
(* kept exactly as [num, den2]: the value num / sqrt(den2), den2 > 0.      *)
(***************************************************************************)
RECURSIVE DotFrom(_, _, _)
DotFrom(a, b, i) == IF i > Len(a) THEN 0 ELSE a[i] * b[i] + DotFrom(a, b, i + 1)
Dot(a, b) == DotFrom(a, b, 1)

\* scores = matrix @ query / denom, denom[denom == 0] = 1e-10
CosineScore(a, q) ==
    IF Dot(a, a) * Dot(q, q) = 0
    THEN [num |-> 0, den2 |-> 1]
    ELSE [num |-> Dot(a, q), den2 |-> Dot(a, a) * Dot(q, q)]

SignedSquare(n) == IF n < 0 THEN 0 - n * n ELSE n * n
ScoreLess(s1, s2) == SignedSquare(s1.num) * s2.den2 < SignedSquare(s2.num) * s1.den2

\* sim < score_threshold, the threshold given as the fraction thr[1] / thr[2] >= 0
BelowThreshold(s, thr) ==
    \/ s.num < 0 /\ (thr[1] > 0 \/ s.num # 0)
    \/ s.num >= 0 /\ s.num * s.num * thr[2] * thr[2] < thr[1] * thr[1] * s.den2

\* np.argsort(-scores): an index order of non-increasing score (the order
\* among equal scores is whatever the sort leaves)
SortedOrdersAscending(scores) ==
    { p \in [1..Len(scores) -> 1..Len(scores)] :
        /\ \A i, j \in 1..Len(scores) : i # j => p[i] # p[j]
        /\ \A i, j \in 1..Len(scores) : i < j => ~ScoreLess(scores[p[j]], scores[p[i]]) }
SortedOrders(scores) ==
    { p \in [1..Len(scores) -> 1..Len(scores)] :
        /\ \A i, j \in 1..Len(scores) : i # j => p[i] # p[j]
        /\ \A i, j \in 1..Len(scores) : i < j => ~ScoreLess(scores[p[i]], scores[p[j]]) }

Take(s, k) == [i \in 1..(IF Len(s) < k THEN Len(s) ELSE k) |-> s[i]]

\* the result loop of search over one index order
SearchResults(loc, q, k, thr, order) ==
    LET scores == [i \in 1..Len(loc.ids) |-> CosineScore(loc.matrix[i], q)]
        all == [i \in 1..Len(order) |->
                  [conversation_id |-> loc.ids[order[i]], score |-> scores[order[i]],
                   content |-> loc.docs[order[i]], metadata |-> loc.metas[order[i]]]]
    IN Take(SelectSeq(all, LAMBDA r : ~BelowThreshold(r.score, thr)), k)

\* what a search that copies everything at once reads from the index
View(d) ==
    [ids |-> Keys(d),
     docs |-> [i \in 1..Len(d) |-> d[i].document],
     metas |-> [i \in 1..Len(d) |-> d[i].metadata],
     matrix |-> [i \in 1..Len(d) |-> d[i].embedding]]
EmptyView == [ids |-> <<>>, docs |-> <<>>, metas |-> <<>>, matrix |-> <<>>]

(***************************************************************************)
(* State                                                                   *)
(***************************************************************************)
VARIABLES
    data,       \* VectorStoreService._data
    disk,       \* the snapshot file at store_path
    lock,       \* owner of VectorStoreService._lock, NoThread when free
    tpc,        \* SpecVS: position of each thread inside its store call
    targ,       \* SpecVS: arguments of the call in progress
    tloc,       \* SpecVS: locals ids, docs, metas, matrix of a running search
    tres,       \* SpecVS: outcome of each thread's last completed call
    ops,        \* SpecVS: number of calls started so far
    db,         \* metadata store: convs (id -> row), msgs (set of rows), embs (id -> row)
    req,        \* the ingest request being served: mode, files, auto_reprocess
    h,          \* locals of the running ingest_single_chat call and its position
    ipc,        \* position of each _process_single_conversation task of the file
    taskResult, \* what each task of the file returned or raised
    bacc,       \* locals of ingest_batch_chats: successful, failed, results
    response,   \* HTTP response of the ingest request, once sent
    dels,       \* responses of the DELETE /api/chats/{id} requests served so far
    reproj,     \* outcomes of the calls of reprocess_all_conversations so far
    log         \* the calls a single caller has made on the vector store (SpecVSSeq)

vsVars == <<data, disk, lock, tpc, targ, tloc, tres, ops>>
ingVars == <<db, req, h, ipc, taskResult, bacc, response, dels, reproj, log>>
vars == <<data, disk, lock, tpc, targ, tloc, tres, ops,
          db, req, h, ipc, taskResult, bacc, response, dels, reproj, log>>

NoArg == [op |-> "none"]
NoRes == [op |-> "none", status |-> "none"]

(***************************************************************************)
(* SpecVS: threads calling one VectorStoreService                          *)
(***************************************************************************)
\* files the service may find at start-up
VSInitialFiles ==
    { AbsentFile, CorruptFile,
      DumpJson(<<MakeEntry([id |-> 1, document |-> "d1", embedding |-> <<1, 0>>,
                            metadata |-> None])>>),
      DumpJson(<<MakeEntry([id |-> 2, document |-> "d0", embedding |-> <<1, 1>>,
                            metadata |-> Some({<<"title", "t0">>})]),
                 MakeEntry([id |-> 1, document |-> "d1", embedding |-> <<1, 0>>,
                            metadata |-> None])>>) }

\* threading.RLock: free, or already held by the calling thread
CanAcquireUnguarded(t) == TRUE
CanAcquire(t) == lock = NoThread \/ lock = t

\* _save: the write succeeds, or raises leaving the old file or a truncated one
SaveOutcomes(d, f) == { DumpJson(d), f, CorruptFile }

T_Call(t) ==
    /\ tpc[t] = "idle"
    /\ ops < MaxOps
    /\ ops' = ops + 1
    /\ \/ \E a \in VSUpsertArgs :
            /\ targ' = [targ EXCEPT ![t] = [op |-> "upsert", entry |-> MakeEntry(a)]]
            /\ tpc' = [tpc EXCEPT ![t] = "u_lock"]
       \/ \E i \in VSIds :
            /\ targ' = [targ EXCEPT ![t] = [op |-> "delete", id |-> i]]
            /\ tpc' = [tpc EXCEPT ![t] = "d_lock"]
       \/ \E q \in VSQueries, k \in {1, 2} :
            /\ targ' = [targ EXCEPT ![t] = [op |-> "search", q |-> q, k |-> k, thr |-> <<0, 1>>]]
            /\ tpc' = [tpc EXCEPT ![t] = "s_lock"]
       \/ /\ targ' = [targ EXCEPT ![t] = [op |-> "count"]]
          /\ tpc' = [tpc EXCEPT ![t] = "c_lock"]
    /\ tloc' = [tloc EXCEPT ![t] = EmptyView]
    /\ UNCHANGED <<data, disk, lock, tres>>
    /\ UNCHANGED ingVars

\* with self._lock:
T_Acquire(t) ==
    /\ tpc[t] \in {"u_lock", "d_lock", "s_lock", "c_lock"}
    /\ CanAcquire(t)
    /\ lock' = t
    /\ tpc' = [tpc EXCEPT ![t] =
                 CASE tpc[t] = "u_lock" -> "u_write"
                   [] tpc[t] = "d_lock" -> "d_pop"
                   [] tpc[t] = "s_lock" -> "s_ids"
                   [] OTHER -> "c_read"]
    /\ UNCHANGED <<data, disk, targ, tloc, tres, ops>>
    /\ UNCHANGED ingVars

\* upsert_conversation: self._data[conversation_id] = {...}
T_UpsertWrite(t) ==
    /\ tpc[t] = "u_write"
    /\ data' = DictPut(data, targ[t].entry)
    /\ tpc' = [tpc EXCEPT ![t] = "u_save"]
    /\ UNCHANGED <<disk, lock, targ, tloc, tres, ops>>
    /\ UNCHANGED ingVars

\* delete_conversation: removed = self._data.pop(id, None) is not None
T_DeletePop(t) ==
    /\ tpc[t] = "d_pop"
    /\ data' = DictPop(data, targ[t].id)
    /\ IF Has(data, targ[t].id)
       THEN /\ tpc' = [tpc EXCEPT ![t] = "d_save"]
            /\ UNCHANGED <<lock, tres>>
       ELSE /\ tpc' = [tpc EXCEPT ![t] = "idle"]
            /\ lock' = NoThread
            /\ tres' = [tres EXCEPT ![t] = [op |-> "delete", status |-> "ok", value |-> FALSE]]
    /\ UNCHANGED <<disk, targ, tloc, ops>>
    /\ UNCHANGED ingVars

\* self._save() inside upsert_conversation / delete_conversation
T_Save(t) ==
    /\ tpc[t] \in {"u_save", "d_save"}
    /\ \E f \in SaveOutcomes(data, disk) :
         /\ disk' = f
         /\ IF f = DumpJson(data)
            THEN /\ tpc' = [tpc EXCEPT ![t] = IF tpc[t] = "u_save" THEN "u_saved" ELSE "d_saved"]
                 /\ UNCHANGED <<lock, tres>>
            ELSE \* the exception leaves the with block, which releases the lock
                 /\ tpc' = [tpc EXCEPT ![t] = "idle"]
                 /\ lock' = NoThread
                 /\ tres' = [tres EXCEPT ![t] = [op |-> targ[t].op, status |-> "error"]]
    /\ UNCHANGED <<data, targ, tloc, ops>>
    /\ UNCHANGED ingVars

\* leaving the with block after a successful save
T_Return(t) ==
    /\ tpc[t] \in {"u_saved", "d_saved"}
    /\ lock' = NoThread
    /\ tpc' = [tpc EXCEPT ![t] = "idle"]
    /\ tres' = [tres EXCEPT ![t] = [op |-> targ[t].op, status |-> "ok", value |-> TRUE]]
    /\ UNCHANGED <<data, disk, targ, tloc, ops>>
    /\ UNCHANGED ingVars

\* search: if not self._data: return []; ids = list(self._data.keys())
T_SearchIds(t) ==
    /\ tpc[t] = "s_ids"
    /\ IF data = <<>>
       THEN /\ tpc' = [tpc EXCEPT ![t] = "idle"]
            /\ lock' = NoThread
            /\ tres' = [tres EXCEPT ![t] = [op |-> "search", status |-> "ok", value |-> <<>>]]
            /\ UNCHANGED tloc
       ELSE /\ tloc' = [tloc EXCEPT ![t].ids = Keys(data)]
            /\ tpc' = [tpc EXCEPT ![t] = "s_docs"]
            /\ UNCHANGED <<lock, tres>>
    /\ UNCHANGED <<data, disk, targ, ops>>
    /\ UNCHANGED ingVars

\* one of the three comprehensions over ids; a missing id raises KeyError
T_SearchRead(t) ==
    /\ tpc[t] \in {"s_docs", "s_metas", "s_matrix"}
    /\ IF \A i \in 1..Len(tloc[t].ids) : Has(data, tloc[t].ids[i])
       THEN /\ tloc' = [tloc EXCEPT ![t] =
                 LET ids == tloc[t].ids
                 IN CASE tpc[t] = "s_docs" ->
                           [tloc[t] EXCEPT !.docs = [i \in 1..Len(ids) |-> Get(data, ids[i]).document]]
                      [] tpc[t] = "s_metas" ->
                           [tloc[t] EXCEPT !.metas = [i \in 1..Len(ids) |-> Get(data, ids[i]).metadata]]
                      [] OTHER ->
                           [tloc[t] EXCEPT !.matrix = [i \in 1..Len(ids) |-> Get(data, ids[i]).embedding]]]
            /\ tpc' = [tpc EXCEPT ![t] =
                 CASE tpc[t] = "s_docs" -> "s_metas"
                   [] tpc[t] = "s_metas" -> "s_matrix"
                   [] OTHER -> "s_unlock"]
            /\ UNCHANGED <<lock, tres>>
       ELSE /\ tpc' = [tpc EXCEPT ![t] = "idle"]
            /\ lock' = IF lock = t THEN NoThread ELSE lock
            /\ tres' = [tres EXCEPT ![t] = [op |-> "search", status |-> "error"]]
            /\ UNCHANGED tloc
    /\ UNCHANGED <<data, disk, targ, ops>>
    /\ UNCHANGED ingVars

\* end of the with block of search
T_SearchRelease(t) ==
    /\ tpc[t] = "s_unlock"
    /\ lock' = NoThread
    /\ tpc' = [tpc EXCEPT ![t] = "s_compute"]
    /\ UNCHANGED <<data, disk, targ, tloc, tres, ops>>
    /\ UNCHANGED ingVars

\* scoring, argsort and the result loop, outside the lock
T_SearchCompute(t) ==
    /\ tpc[t] = "s_compute"
    /\ \E order \in SortedOrders([i \in 1..Len(tloc[t].ids) |->
                                    CosineScore(tloc[t].matrix[i], targ[t].q)]) :
         tres' = [tres EXCEPT ![t] =
                    [op |-> "search", status |-> "ok",
                     value |-> SearchResults(tloc[t], targ[t].q, targ[t].k, targ[t].thr, order)]]
    /\ tpc' = [tpc EXCEPT ![t] = "idle"]
    /\ UNCHANGED <<data, disk, lock, targ, tloc, ops>>
    /\ UNCHANGED ingVars

\* count / get_stats: len(self._data) under the lock
T_Count(t) ==
    /\ tpc[t] = "c_read"
    /\ tres' = [tres EXCEPT ![t] = [op |-> "count", status |-> "ok", value |-> Len(data)]]
    /\ lock' = NoThread
    /\ tpc' = [tpc EXCEPT ![t] = "idle"]
    /\ UNCHANGED <<data, disk, targ, tloc, ops>>
    /\ UNCHANGED ingVars

(***************************************************************************)
(* SpecVSSeq: one caller using a VectorStoreService, call after call.      *)
(* Each action is a whole method; log keeps, per call, its arguments, its  *)
(* outcome and count, the value count() returns right after the call.      *)
(***************************************************************************)
\* calls the single caller of SpecVSSeq makes
MaxSeqOps == 3

\* search arguments of the single caller; <<1>> has another dimension than
\* the stored vectors
SeqSearchArgs ==
    { [q |-> <<1, 0>>, k |-> 1], [q |-> <<1, 0>>, k |-> 2],
      [q |-> <<0, 1>>, k |-> 1], [q |-> <<1>>, k |-> 1] }

\* score_threshold = 0.0
ZeroThreshold == <<0, 1>>

\* VectorStoreService.count
Count(d) == Len(d)

\* np.array(rows, dtype=np.float32) raises ValueError for rows of unequal
\* length, matrix @ query raises ValueError when the lengths differ
ShapesAgree(matrix, q) == \A i \in 1..Len(matrix) : Len(matrix[i]) = Len(q)

\* the outcomes of one whole call of search
SearchOutcomes(d, q, k, thr) ==
    IF d = <<>>
    THEN { [status |-> "ok", type |-> "", value |-> <<>>] }
    ELSE IF ~ShapesAgree(View(d).matrix, q)
    THEN { [status |-> "error", type |-> "ValueError", value |-> <<>>] }
    ELSE { [status |-> "ok", type |-> "", value |-> SearchResults(View(d), q, k, thr, order)] :
             order \in SortedOrders([i \in 1..Len(d) |-> CosineScore(d[i].embedding, q)]) }

Q_Upsert(a) ==
    /\ Len(log) < MaxSeqOps
    /\ data' = DictPut(data, MakeEntry(a))
    /\ \E f \in SaveOutcomes(DictPut(data, MakeEntry(a)), disk) :
         /\ disk' = f
         /\ log' = Append(log,
                [op |-> "upsert", id |-> a.id, v |-> a.embedding,
                 status |-> IF f = DumpJson(DictPut(data, MakeEntry(a))) THEN "ok" ELSE "error",
                 count |-> Count(DictPut(data, MakeEntry(a)))])
    /\ UNCHANGED <<lock, tpc, targ, tloc, tres, ops,
                   db, req, h, ipc, taskResult, bacc, response, dels, reproj>>

Q_Delete(i) ==
    /\ Len(log) < MaxSeqOps
    /\ data' = DictPop(data, i)
    /\ IF Has(data, i)
       THEN \E f \in SaveOutcomes(DictPop(data, i), disk) :
              /\ disk' = f
              /\ log' = Append(log,
                     [op |-> "delete", id |-> i,
                      status |-> IF f = DumpJson(DictPop(data, i)) THEN "ok" ELSE "error",
                      value |-> TRUE, count |-> Count(DictPop(data, i))])
       ELSE /\ UNCHANGED disk
            /\ log' = Append(log, [op |-> "delete", id |-> i, status |-> "ok",
                                   value |-> FALSE, count |-> Count(data)])
    /\ UNCHANGED <<lock, tpc, targ, tloc, tres, ops,
                   db, req, h, ipc, taskResult, bacc, response, dels, reproj>>

Q_Search(a) ==
    /\ Len(log) < MaxSeqOps
    /\ \E o \in SearchOutcomes(data, a.q, a.k, ZeroThreshold) :
         log' = Append(log, [op |-> "search", q |-> a.q, k |-> a.k, before |-> data,
                             status |-> o.status, type |-> o.type, value |-> o.value,
                             count |-> Count(data)])
    /\ UNCHANGED <<data, disk, lock, tpc, targ, tloc, tres, ops,
                   db, req, h, ipc, taskResult, bacc, response, dels, reproj>>

Q_Count ==
    /\ Len(log) < MaxSeqOps
    /\ log' = Append(log, [op |-> "count", status |-> "ok", value |-> Count(data),
                           count |-> Count(data)])
    /\ UNCHANGED <<data, disk, lock, tpc, targ, tloc, tres, ops,
                   db, req, h, ipc, taskResult, bacc, response, dels, reproj>>

(***************************************************************************)
(* Normaliser (backend/services/normalizer.py)                             *)
(***************************************************************************)
\* a parsed message without a sequence_number key carries NoSeq
NoSeq == -1

\* str.lower() on the role strings of the inputs
Lower(role) ==
    CASE role = "USER" -> "user"
      [] role = "Assistant" -> "assistant"
      [] OTHER -> role

\* re.sub(r'\s+', ' ', content).strip() on the content strings of the inputs
CollapseWhitespace(content) ==
    CASE content = "  " -> ""
      [] content = " hi  there " -> "hi there"
      [] OTHER -> content

\* _clean_message: a sequence of length 0 (None) or 1 (the cleaned message)
CleanMessage(m) ==
    IF Lower(m.role) \notin {"user", "assistant", "system"} THEN None
    ELSE IF m.content = "" THEN None
    ELSE IF CollapseWhitespace(m.content) = "" THEN None
    ELSE Some([role |-> Lower(m.role), content |-> CollapseWhitespace(m.content),
               sequence_number |-> IF m.seq = NoSeq THEN 0 ELSE m.seq])

\* the cleaning loop of normalize_conversation
RECURSIVE CleanAll(_, _)
CleanAll(ms, acc) ==
    IF ms = <<>> THEN acc
    ELSE CleanAll(Tail(ms), acc \o CleanMessage(Head(ms)))

\* _generate_title; titles are Optional strings
GenerateTitle(existing, cleaned) ==
    IF existing # None /\ existing[1] \notin {"", "Untitled"} THEN existing[1]
    ELSE LET users == SelectSeq(cleaned, LAMBDA m : m.role = "user")
         IN IF users = <<>> THEN "Untitled Conversation" ELSE users[1].content

\* normalize_conversation: ok = FALSE stands for the ValueError it raises
NormalizeCountRaw(parsed) ==
    LET cleaned == CleanAll(parsed.messages, <<>>)
    IN IF parsed.messages = <<>> \/ cleaned = <<>>
       THEN [ok |-> FALSE]
       ELSE [ok |-> TRUE, title |-> GenerateTitle(parsed.title, cleaned),
             messages |-> cleaned, message_count |-> Len(parsed.messages)]
NormalizeConversation(parsed) ==
    LET cleaned == CleanAll(parsed.messages, <<>>)
    IN IF parsed.messages = <<>> \/ cleaned = <<>>
       THEN [ok |-> FALSE]
       ELSE [ok |-> TRUE, title |-> GenerateTitle(parsed.title, cleaned),
             messages |-> cleaned, message_count |-> Len(cleaned)]

(***************************************************************************)
(* Inputs of the ingestion endpoints.  A parsed conversation carries, next *)
(* to what the parser returned, the behaviour of the external services    *)
(* while it is processed: env is "ok", or the one call that fails          *)
(* permanently ("summ_fail", "embed_fail", "persist_fail", "index_fail").  *)
(***************************************************************************)
Msg(r, c, n) == [role |-> r, content |-> c, seq |-> n]

GoodMessages == << Msg("user", "hi", 0), Msg("assistant", "hello", 1) >>
\* the middle message is whitespace only, the first has no sequence number
GapMessages == << Msg("USER", " hi  there ", NoSeq), Msg("user", "  ", 1),
                  Msg("assistant", "hello", 2) >>
BlankMessages == << Msg("tool", "hi", 0), Msg("user", "  ", 1) >>

Parsed(t, ms, e, v) == [title |-> t, messages |-> ms, env |-> e, vec |-> v]

ConvKinds ==
    { Parsed(Some("T"), GoodMessages, "ok", <<1, 0>>),
      Parsed(None, GapMessages, "summ_fail", <<0, 1>>),
      Parsed(Some("Untitled"), <<>>, "ok", <<1, 0>>),
      Parsed(Some("T"), BlankMessages, "ok", <<1, 0>>),
      Parsed(Some("T"), GoodMessages, "embed_fail", <<1, 0>>),
      Parsed(Some("T"), GoodMessages, "persist_fail", <<1, 0>>),
      Parsed(Some("T"), GoodMessages, "index_fail", <<1, 1>>) }

\* the conversations of SpecBatches: one kind per outcome of the pipeline
BatchKinds ==
    { Parsed(Some("T"), GoodMessages, "ok", <<1, 0>>),
      Parsed(Some("Untitled"), <<>>, "ok", <<1, 0>>),
      Parsed(Some("T"), BlankMessages, "ok", <<1, 0>>),
      Parsed(Some("T"), GoodMessages, "embed_fail", <<1, 0>>),
      Parsed(Some("T"), GoodMessages, "persist_fail", <<1, 0>>) }

SeqsUpTo(S, n) == UNION { [1..k -> S] : k \in 0..n }

File(name, dec, fmt, cs) == [filename |-> name, decodable |-> dec, format |-> fmt, convs |-> cs]

\* file.filename.endswith('.html')
EndsWithHtml(name) == name \in {"chat.html", "a.html", "b.html"}

(***************************************************************************)
(* Bounds of the ingestion specifications                                  *)
(***************************************************************************)
\* conversations in the file of a single-file request of Spec
MaxConvs == 2
\* files in a batch request of Spec
MaxFiles == 2
\* conversations in all the files of a batch request of Spec together
MaxBatchConvs == 1
\* DELETE /api/chats/{id} requests served while Spec runs
MaxDeletes == 1
\* conversations in the file of SpecBatches
MaxBundle == 4

\* BATCH_SIZE of ingest_single_chat
BATCH_SIZE == 3
\* the cap on clusters in reprocess_all_conversations: min(5, len(embedding_vectors))
MAX_CLUSTERS == 5

DefectFiles ==
    { File("chat.txt", TRUE, "chatgpt", <<>>),
      File("chat.html", FALSE, "chatgpt", <<>>),
      File("chat.html", TRUE, "none", <<>>) }

SingleFiles ==
    { File("chat.html", TRUE, "chatgpt", cs) : cs \in SeqsUpTo(ConvKinds, MaxConvs) }
    \cup { File("chat.html", TRUE, "claude", cs) : cs \in SeqsUpTo(ConvKinds, 1) }
    \cup DefectFiles

BatchFiles ==
    { File("a.html", TRUE, "chatgpt", cs) : cs \in SeqsUpTo(ConvKinds, MaxBatchConvs) }
    \cup DefectFiles

\* the sequences of at most n files that hold at most c conversations together
RECURSIVE FileSeqs(_, _)
FileSeqs(n, c) ==
    IF n = 0 THEN { <<>> }
    ELSE { <<>> } \cup
         UNION { { <<f>> \o r : r \in FileSeqs(n - 1, c - Len(f.convs)) } :
                 f \in { g \in BatchFiles : Len(g.convs) <= c } }

Requests ==
    { [mode |-> "single", files |-> <<f>>, auto |-> a] : f \in SingleFiles, a \in BOOLEAN }
    \cup
    { [mode |-> "batch", files |-> fs, auto |-> a] :
        fs \in FileSeqs(MaxFiles, MaxBatchConvs) \ { <<>> }, a \in BOOLEAN }

BundleRequests ==
    { [mode |-> "single", files |-> <<File("chat.html", TRUE, "chatgpt", cs)>>, auto |-> FALSE] :
        cs \in SeqsUpTo(BatchKinds, MaxBundle) }

(***************************************************************************)
(* Metadata store and request handlers                                     *)
(***************************************************************************)
EmptyDb == [convs |-> <<>>, msgs |-> {}, embs |-> <<>>]
NoResponse == [status |-> 0]
Pending == [kind |-> "pending"]

\* uuid.uuid4(): the conversation of task i of file f gets an id of its own
ConvId(f, i) == f * 10 + i

Min(a, b) == IF a < b THEN a ELSE b

\* db.add(conversation); db.add(message)...; db.add(embedding); db.commit()
\* of _process_single_conversation
Persist(d, cid, n, summary, topics, vec) ==
    [convs |-> (cid :> [title |-> n.title, summary |-> summary, topics |-> topics,
                        cluster_id |-> 0, cluster_name |-> "Unclustered",
                        message_count |-> n.message_count]) @@ d.convs,
     msgs |-> d.msgs \cup
              { [id |-> <<cid, k>>, conversation_id |-> cid, role |-> n.messages[k].role,
                 content |-> n.messages[k].content,
                 sequence_number |-> n.messages[k].sequence_number] :
                k \in 1..Len(n.messages) },
     embs |-> (cid :> [embedding_384d |-> vec, vector_3d |-> <<0, 0, 0>>, magnitude |-> 1])
              @@ d.embs]

\* where the transaction of _process_single_conversation can fail: while the
\* first Message is added, after it, while the Embedding is added, at commit
PersistFailPoints == {"conversation", "messages", "embedding", "commit"}

\* the rows the session holds when the transaction fails at `point`
SessionAt(d, cid, n, summary, topics, vec, point) ==
    LET full == Persist(d, cid, n, summary, topics, vec)
    IN [convs |-> full.convs,
        msgs |-> CASE point = "conversation" -> d.msgs
                   [] point = "messages" ->
                        d.msgs \cup {m \in full.msgs : m.id = <<cid, 1>>}
                   [] OTHER -> full.msgs,
        embs |-> IF point = "commit" THEN full.embs ELSE d.embs]

\* a session that keeps what it holds when the exception leaves the block
RollbackKeeping(d, session) == session

\* get_db_context: `except Exception: db.rollback(); raise`
Rollback(d, session) == d

\* db.delete(conversation); db.commit() with the ORM cascades of models.py
\* (Conversation.messages and Conversation.embedding: "all, delete-orphan")
CascadeDelete(d, cid) ==
    [convs |-> [c \in DOMAIN d.convs \ {cid} |-> d.convs[c]],
     msgs |-> { m \in d.msgs : m.conversation_id # cid },
     embs |-> [c \in DOMAIN d.embs \ {cid} |-> d.embs[c]]]

\* the write-back loop of reprocess_all_conversations for cluster labels l:
\* the projected point of a conversation is abstracted to <<1, 1, 1>>
ApplyProjection(d, l) ==
    [convs |-> [c \in DOMAIN d.convs |->
                  IF c \in DOMAIN l
                  THEN [d.convs[c] EXCEPT !.cluster_id = l[c],
                                          !.cluster_name = "Cluster " \o ToString(l[c])]
                  ELSE d.convs[c]],
     msgs |-> d.msgs,
     embs |-> [c \in DOMAIN d.embs |->
                  [d.embs[c] EXCEPT !.vector_3d = <<1, 1, 1>>, !.magnitude = 2]]]

\* the session of a run that raises after its write-back loop has updated
\* the conversations of `done` (none when UMAP or K-means raised, all when
\* the commit raised)
PartialProjection(d, l, done) ==
    LET full == ApplyProjection(d, l)
    IN [convs |-> [c \in DOMAIN d.convs |->
                     IF c \in done THEN full.convs[c] ELSE d.convs[c]],
        msgs |-> d.msgs,
        embs |-> [c \in DOMAIN d.embs |->
                     IF c \in done THEN full.embs[c] ELSE d.embs[c]]]

\* the labels a failing run had computed: one cluster for all, for each
\* cluster id (what the loop wrote is discarded, whatever the labels were)
UniformLabels(ids, K) == {[c \in ids |-> k] : k \in 0..(K - 1)}

\* the loop runs over conversation_ids in query order
LoopPrefixes(ids) == {{c \in ids : c <= m} : m \in ids \cup {0}}

\* reprocess_all_conversations: 422 below two embeddings, 500 and a rollback
\* when a step raises, else every conversation gets one of K cluster ids
ReprocessOutcomesNoMinimum(d) ==
    LET ids == DOMAIN d.embs
        K == Min(MAX_CLUSTERS, Cardinality(ids))
    IN { [status |-> 500, db |-> d, labels |-> <<>>, detail |-> "Reprocessing failed"] }
       \cup { [status |-> 200, db |-> ApplyProjection(d, l), labels |-> l, detail |-> ""] :
                l \in [ids -> 0..(K - 1)] }
ReprocessOutcomesUncapped(d) ==
    LET ids == DOMAIN d.embs
        K == Cardinality(ids)
    IN IF Cardinality(ids) < 2
       THEN { [status |-> 422, db |-> d, labels |-> <<>>,
               detail |-> "Need at least 2 conversations to perform clustering"] }
       ELSE { [status |-> 500, db |-> d, labels |-> <<>>, detail |-> "Reprocessing failed"] }
            \cup { [status |-> 200, db |-> ApplyProjection(d, l), labels |-> l, detail |-> ""] :
                     l \in [ids -> 0..(K - 1)] }
ReprocessOutcomes(d) ==
    LET ids == DOMAIN d.embs
        K == Min(MAX_CLUSTERS, Cardinality(ids))
    IN IF Cardinality(ids) < 2
       THEN { [status |-> 422, db |-> d, labels |-> <<>>,
               detail |-> "Need at least 2 conversations to perform clustering"] }
       ELSE { [status |-> 500,
                db |-> Rollback(d, PartialProjection(d, l, done)),
                labels |-> <<>>, detail |-> "Reprocessing failed"] :
                  l \in UniformLabels(ids, K), done \in LoopPrefixes(ids) }
            \cup { [status |-> 200, db |-> ApplyProjection(d, l), labels |-> l, detail |-> ""] :
                     l \in [ids -> 0..(K - 1)] }

\* try: await reprocess_all_conversations() except Exception: print(...)
\* the result is the metadata store afterwards and the calls made (none or one)
AfterReprocess(d, wanted) ==
    IF wanted
    THEN { [db |-> o.db, runs |-> << [status |-> o.status, labels |-> o.labels,
                                      detail |-> o.detail, surfaced |-> FALSE] >>] :
             o \in ReprocessOutcomes(d) }
    ELSE { [db |-> d, runs |-> <<>>] }

\* the searchable document and metadata built by upsert_conversation_to_store
IndexEntryFor(cid, n, summary, topics, vec) ==
    MakeEntry([id |-> cid,
               document |-> <<n.title, summary, topics, n.messages>>,
               embedding |-> vec,
               metadata |-> Some({ <<"title", n.title>>, <<"topic_count", Len(topics)>>,
                                   <<"message_count", Len(n.messages)>> })])

\* summarize_conversation, or the fallback of _process_single_conversation
SummaryFor(parsed, n) ==
    IF parsed.env = "summ_fail"
    THEN [summary |-> "Conversation with " \o ToString(n.message_count) \o " messages",
          topics |-> <<>>]
    ELSE [summary |-> "llm summary", topics |-> <<"topic">>]

\* a task that lets the exception of the upsert escape
AfterUpsertFatal(raised, value) ==
    IF raised THEN [kind |-> "exception", cause |-> "index"]
    ELSE [kind |-> "ok", value |-> value]

\* the try/except around upsert_conversation_to_store: the exception is
\* printed and the task returns its IngestResponse all the same
AfterUpsert(raised, value) == [kind |-> "ok", value |-> value]

IngestResponse(ok, cid, title, count, err) ==
    [success |-> ok, conversation_id |-> cid, title |-> title,
     message_count |-> count, error |-> err]

HTTPExc(status, detail) == [type |-> "HTTPException", status |-> status, detail |-> detail]
OtherExc(detail) == [type |-> "Exception", status |-> 0, detail |-> detail]

\* the except clauses that close ingest_single_chat: an HTTPException is
\* re-raised, anything else becomes an unsuccessful IngestResponse
HandlerExitSwallowing(exc) ==
    [kind |-> "return", body |-> IngestResponse(FALSE, None, None, 0, Some(exc.detail))]
HandlerExit(exc) ==
    IF exc.type = "HTTPException"
    THEN [kind |-> "raise", status |-> exc.status, detail |-> exc.detail]
    ELSE [kind |-> "return", body |-> IngestResponse(FALSE, None, None, 0, Some(exc.detail))]

\* asyncio.gather(*tasks, return_exceptions=True): exceptions come back as values
GatherFailFast(results) ==
    IF \E i \in 1..Len(results) : results[i].kind = "exception"
    THEN [raised |-> TRUE, values |-> <<>>]
    ELSE [raised |-> FALSE, values |-> results]
Gather(results) == [raised |-> FALSE, values |-> results]

\* the auto_reprocess seen by ingest_single_chat: the form value when FastAPI
\* calls it; when ingest_batch_chats calls it with the file only, the
\* parameter default, the Form(...) object itself, which is truthy
InnerAutoReprocess == IF req.mode = "single" THEN req.auto ELSE TRUE

NewHandler(f) ==
    [pc |-> "read", fileIdx |-> f, parsed |-> <<>>, batchStart |-> 0, results |-> <<>>,
     ingested |-> 0, total_messages |-> 0, last_id |-> None, last_title |-> None]

\* the for loop over batch_results
RECURSIVE CollectResults(_, _)
CollectResults(acc, rs) ==
    IF rs = <<>> THEN acc
    ELSE IF Head(rs).kind = "ok"
    THEN CollectResults(
            [acc EXCEPT !.results = Append(@, Head(rs).value),
                        !.ingested = @ + 1,
                        !.total_messages = @ + Head(rs).value.message_count,
                        !.last_id = Head(rs).value.conversation_id,
                        !.last_title = Head(rs).value.title],
            Tail(rs))
    ELSE CollectResults(acc, Tail(rs))

\* one pass of the for loop of ingest_batch_chats over the outcome of a file
CountFileDroppingRaised(b, outcome, filename) ==
    IF outcome.kind = "return"
    THEN [successful |-> b.successful + (IF outcome.body.success THEN 1 ELSE 0),
          failed |-> b.failed + (IF outcome.body.success THEN 0 ELSE 1),
          results |-> Append(b.results, outcome.body)]
    ELSE b
CountFile(b, outcome, filename) ==
    IF outcome.kind = "return"
    THEN [successful |-> b.successful + (IF outcome.body.success THEN 1 ELSE 0),
          failed |-> b.failed + (IF outcome.body.success THEN 0 ELSE 1),
          results |-> Append(b.results, outcome.body)]
    ELSE [successful |-> b.successful,
          failed |-> b.failed + 1,
          results |-> Append(b.results,
                        IngestResponse(FALSE, None, Some(filename), 0, Some(outcome.detail)))]

\* IngestBatchResponse(...)
BatchResponse(b) ==
    [status |-> 200,
     body |-> [total_processed |-> Len(req.files), successful |-> b.successful,
               failed |-> b.failed, conversations |-> b.results]]

\* ingest_single_chat has returned or raised for file h.fileIdx with the
\* metadata store at d, its locals at hh and the reprocess calls runs made:
\* the single endpoint answers; the batch endpoint
\* counts the file and moves to the next one or, after the last, reprocesses
\* (if auto_reprocess and successful > 0) and answers
Conclude(outcome, d, hh, runs) ==
    /\ UNCHANGED <<req, dels, log>>
    /\ IF req.mode = "single"
       THEN /\ response' = IF outcome.kind = "raise"
                           THEN [status |-> outcome.status, detail |-> outcome.detail]
                           ELSE [status |-> 200, body |-> outcome.body]
            /\ h' = [hh EXCEPT !.pc = "done"]
            /\ db' = d
            /\ reproj' = reproj \o runs
            /\ UNCHANGED <<bacc, ipc, taskResult>>
       ELSE LET b == CountFile(bacc, outcome, req.files[h.fileIdx].filename)
            IN /\ bacc' = b
               /\ IF h.fileIdx < Len(req.files)
                  THEN /\ h' = NewHandler(h.fileIdx + 1)
                       /\ ipc' = <<>>
                       /\ taskResult' = <<>>
                       /\ db' = d
                       /\ reproj' = reproj \o runs
                       /\ UNCHANGED response
                  ELSE /\ h' = [hh EXCEPT !.pc = "done"]
                       /\ UNCHANGED <<ipc, taskResult>>
                       /\ \E r \in AfterReprocess(d, req.auto /\ b.successful > 0) :
                            /\ db' = r.db
                            /\ reproj' = reproj \o runs \o r.runs
                       /\ response' = BatchResponse(b)

(***************************************************************************)
(* POST /api/ingest and POST /api/ingest/batch                             *)
(***************************************************************************)
\* the tasks of the batch that starts after position start of h.parsed:
\* every remaining task at once, as a single gather over the whole file
BatchOfUnbounded(start, n) == { i \in 1..n : start < i }

\* parsed_conversations[batch_start:batch_start + BATCH_SIZE]
BatchOf(start, n) == { i \in 1..n : start < i /\ i <= start + BATCH_SIZE }

\* ingest_single_chat from `await file.read()` to the first asyncio.gather:
\* validation, parsing, the filter of empty parses, the first batch of tasks
H_Parse ==
    /\ h.pc = "read"
    /\ UNCHANGED <<data, disk, lock, tpc, targ, tloc, tres, ops>>
    /\ LET f == req.files[h.fileIdx]
           parsed == SelectSeq(f.convs, LAMBDA c : c.messages # <<>>)
       IN IF ~EndsWithHtml(f.filename)
          THEN Conclude(HandlerExit(HTTPExc(400, "Only HTML files are accepted")), db, h, <<>>)
          ELSE IF ~f.decodable
          THEN Conclude(HandlerExit(OtherExc("UnicodeDecodeError")), db, h, <<>>)
          ELSE IF f.format = "none"
          THEN Conclude(HandlerExit(HTTPExc(422, "Unable to detect chat format (ChatGPT/Claude)")), db, h, <<>>)
          ELSE IF parsed = <<>>
          THEN Conclude(HandlerExit(HTTPExc(422, "Failed to parse HTML file")), db, h, <<>>)
          ELSE /\ h' = [h EXCEPT !.pc = "gather", !.parsed = parsed, !.batchStart = 0]
               /\ ipc' = [i \in 1..Len(parsed) |->
                            IF i \in BatchOf(0, Len(parsed)) THEN "start" ELSE "waiting"]
               /\ taskResult' = [i \in 1..Len(parsed) |-> Pending]
               /\ UNCHANGED <<db, req, bacc, response, dels, reproj, log>>

\* _process_single_conversation up to `await summarize_conversation`: the
\* tasks of a gather start in creation order
I_Start(i) ==
    /\ h.pc = "gather"
    /\ i \in DOMAIN ipc
    /\ ipc[i] = "start"
    /\ \A j \in DOMAIN ipc : j < i => ipc[j] # "start"
    /\ IF h.parsed[i].messages = <<>>
       THEN /\ ipc' = [ipc EXCEPT ![i] = "done"]
            /\ taskResult' = [taskResult EXCEPT ![i] = [kind |-> "none", cause |-> "no messages"]]
       ELSE IF ~NormalizeConversation(h.parsed[i]).ok
       THEN /\ ipc' = [ipc EXCEPT ![i] = "done"]
            /\ taskResult' = [taskResult EXCEPT ![i] = [kind |-> "exception", cause |-> "normalize"]]
       ELSE /\ ipc' = [ipc EXCEPT ![i] = "summarizing"]
            /\ UNCHANGED taskResult
    /\ UNCHANGED <<data, disk, lock, tpc, targ, tloc, tres, ops, db, req, h, bacc, response,
                   dels, reproj, log>>

\* the summary (or its fallback) is there; up to `await generate_embedding`
I_Summarized(i) ==
    /\ h.pc = "gather"
    /\ i \in DOMAIN ipc
    /\ ipc[i] = "summarizing"
    /\ ipc' = [ipc EXCEPT ![i] = "embedding"]
    /\ UNCHANGED <<data, disk, lock, tpc, targ, tloc, tres, ops,
                   db, req, h, taskResult, bacc, response, dels, reproj, log>>

\* the rest of _process_single_conversation: embedding result, the
\* metadata transaction, the vector store upsert, the IngestResponse
I_Embedded(i) ==
    /\ h.pc = "gather"
    /\ i \in DOMAIN ipc
    /\ ipc[i] = "embedding"
    /\ ipc' = [ipc EXCEPT ![i] = "done"]
    /\ LET p == h.parsed[i]
           n == NormalizeConversation(p)
           sm == SummaryFor(p, n)
           cid == ConvId(h.fileIdx, i)
           entry == IndexEntryFor(cid, n, sm.summary, sm.topics, p.vec)
       IN IF p.env = "embed_fail"
          THEN /\ taskResult' = [taskResult EXCEPT ![i] = [kind |-> "none", cause |-> "embedding"]]
               /\ UNCHANGED <<db, data, disk>>
          ELSE IF p.env = "persist_fail"
          THEN \* the exception leaves get_db_context: db.rollback()
               /\ taskResult' = [taskResult EXCEPT ![i] = [kind |-> "exception", cause |-> "persist"]]
               /\ \E point \in PersistFailPoints :
                    db' = Rollback(db, SessionAt(db, cid, n, sm.summary, sm.topics,
                                                 p.vec, point))
               /\ UNCHANGED <<data, disk>>
          ELSE /\ db' = Persist(db, cid, n, sm.summary, sm.topics, p.vec)
               /\ data' = DictPut(data, entry)
               /\ IF p.env = "index_fail"
                  THEN disk' \in SaveOutcomes(DictPut(data, entry), disk) \ {DumpJson(DictPut(data, entry))}
                  ELSE disk' = DumpJson(DictPut(data, entry))
               /\ taskResult' = [taskResult EXCEPT ![i] =
                     AfterUpsert(p.env = "index_fail",
                                 IngestResponse(TRUE, Some(cid), Some(n.title),
                                                n.message_count, None))]
    /\ UNCHANGED <<lock, tpc, targ, tloc, tres, ops, req, h, bacc, response, dels, reproj, log>>

\* asyncio.gather has every result of the batch: the loop over
\* batch_results, then the next batch of tasks or the end of the handler
H_Collect ==
    /\ h.pc = "gather"
    /\ \A i \in BatchOf(h.batchStart, Len(h.parsed)) : ipc[i] = "done"
    /\ UNCHANGED <<data, disk, lock, tpc, targ, tloc, tres, ops>>
    /\ LET n == Len(h.parsed)
           last == Min(h.batchStart + BATCH_SIZE, n)
           g == Gather([k \in 1..(last - h.batchStart) |-> taskResult[h.batchStart + k]])
           acc == CollectResults(h, g.values)
       IN IF g.raised
          THEN Conclude(HandlerExit(OtherExc("task exception")), db, h, <<>>)
          ELSE IF last < n
          THEN /\ h' = [acc EXCEPT !.batchStart = last]
               /\ ipc' = [i \in 1..n |-> IF i \in BatchOf(last, n) THEN "start" ELSE ipc[i]]
               /\ UNCHANGED <<db, req, taskResult, bacc, response, dels, reproj, log>>
          ELSE IF acc.ingested = 0
          THEN Conclude(HandlerExit(HTTPExc(422,
                   "All conversations in the file were empty or failed processing")), db, acc, <<>>)
          ELSE \E r \in AfterReprocess(db, InnerAutoReprocess) :
                 Conclude([kind |-> "return",
                           body |-> IngestResponse(TRUE, acc.last_id,
                                       IF acc.ingested > 1
                                       THEN Some(ToString(acc.ingested) \o " conversations")
                                       ELSE acc.last_title,
                                       acc.total_messages, None)], r.db, acc, r.runs)

(***************************************************************************)
(* DELETE /api/chats/{id} (backend/api/chats.py)                           *)
(***************************************************************************)
\* an id no conversation ever has
UnknownId == 99
\* tasks a file of Spec can have, and the ids a DELETE request can name
MaxItems == IF MaxConvs > MaxBatchConvs THEN MaxConvs ELSE MaxBatchConvs
DeleteTargets == { ConvId(f, i) : f \in 1..MaxFiles, i \in 1..MaxItems } \cup {UnknownId}

D_Delete(cid) ==
    /\ Len(dels) < MaxDeletes
    /\ cid \in DOMAIN db.convs \cup {UnknownId}
    /\ IF cid \in DOMAIN db.convs
       THEN /\ db' = CascadeDelete(db, cid)
            /\ dels' = Append(dels, [id |-> cid, status |-> 200])
       ELSE /\ dels' = Append(dels, [id |-> cid, status |-> 404])
            /\ UNCHANGED db
    /\ UNCHANGED <<data, disk, lock, tpc, targ, tloc, tres, ops,
                   req, h, ipc, taskResult, bacc, response, reproj, log>>

(***************************************************************************)
(* POST /api/ingest/reprocess against a stored corpus (SpecProj)           *)
(***************************************************************************)
\* conversations of the largest corpus of SpecProj
MaxCorpus == 6

\* a metadata store holding m ingested conversations, none projected yet
RECURSIVE Corpus(_)
Corpus(m) ==
    IF m = 0 THEN EmptyDb
    ELSE LET p == Parsed(Some("T"), GoodMessages, "ok", <<1, 0>>)
             n == NormalizeConversation(p)
             sm == SummaryFor(p, n)
         IN Persist(Corpus(m - 1), ConvId(1, m), n, sm.summary, sm.topics, p.vec)

\* the endpoint itself: the HTTPException of reprocess_all_conversations
\* reaches the client, a success returns the statistics
R_Reprocess ==
    /\ req.mode = "reprocess"
    /\ response = NoResponse
    /\ \E o \in ReprocessOutcomes(db) :
         /\ db' = o.db
         /\ reproj' = Append(reproj, [status |-> o.status, labels |-> o.labels,
                                      detail |-> o.detail, surfaced |-> TRUE])
         /\ response' = IF o.status = 200
                        THEN [status |-> 200,
                              body |-> [success |-> TRUE,
                                        conversations_processed |-> Cardinality(DOMAIN db.embs),
                                        n_clusters |-> Min(MAX_CLUSTERS, Cardinality(DOMAIN db.embs))]]
                        ELSE [status |-> o.status, detail |-> o.detail]
    /\ UNCHANGED <<data, disk, lock, tpc, targ, tloc, tres, ops,
                   req, h, ipc, taskResult, bacc, dels, log>>

(***************************************************************************)
(* POST /api/search (backend/api/search.py).  The hosted vector store      *)
(* answers the query with hits [file_id, score, content]; scores are in    *)
(* tenths.                                                                 *)
(***************************************************************************)
\* hits the hosted store returns for one query
MaxHits == 2

\* the columns of the Conversation model of models.py
ConversationColumns ==
    { "id", "title", "summary", "topics", "cluster_id", "cluster_name",
      "message_count", "created_at", "updated_at" }

Hit(f, sc) == [file_id |-> f, score |-> sc, content |-> "text"]
HitKinds == { Hit(f, sc) : f \in {None, Some("f1"), Some("f2")}, sc \in {3, 9} }

SearchRequests ==
    { [mode |-> "search", hits |-> hs, limit |-> l] :
        hs \in SeqsUpTo(HitKinds, MaxHits), l \in 1..2 }

Max(a, b) == IF a > b THEN a ELSE b

\* the loop over vector_results: file_scores, the maximum score per file_id
\* (starting from 0.0); hits without file_id are skipped
RECURSIVE FileScores(_, _)
FileScores(acc, hits) ==
    IF hits = <<>> THEN acc
    ELSE IF Head(hits).file_id = None
    THEN FileScores(acc, Tail(hits))
    ELSE LET f == Head(hits).file_id[1]
             old == IF f \in DOMAIN acc THEN acc[f] ELSE 0
         IN FileScores((f :> Max(old, Head(hits).score)) @@ acc, Tail(hits))

\* search_conversations: without hits an empty SearchResponse; with hits the
\* query of step 3 reads Conversation.openai_file_id, which the model class
\* does not define, the AttributeError is caught by `except Exception` and
\* becomes HTTP 500, so the result list of steps 3 to 6 is never built
SearchConversations(r) ==
    LET file_scores == FileScores(<<>>, r.hits)
    IN IF r.hits = <<>>
       THEN [status |-> 200, body |-> [results |-> <<>>, total_results |-> 0]]
       ELSE IF "openai_file_id" \notin ConversationColumns
       THEN [status |-> 500, detail |-> "Search failed"]
       ELSE [status |-> 200,
             body |-> [results |-> <<>>, total_results |-> Cardinality(DOMAIN file_scores)]]

\* one POST /api/search request
S_Search ==
    /\ req.mode = "search"
    /\ response = NoResponse
    /\ response' = SearchConversations(req)
    /\ UNCHANGED <<data, disk, lock, tpc, targ, tloc, tres, ops,
                   db, req, h, ipc, taskResult, bacc, dels, reproj, log>>

(***************************************************************************)
(* Relevance guard of search_memory: services/backboard_guard.py and       *)
(* cortex_mcp/server.py.  Confidences and thresholds are in tenths.        *)
(***************************************************************************)
MaxMemories == 2

Thresholds == {3, 5, 7}

NoKey == -1        \* the reply object has no "confidence" key
BadValue == -2     \* "confidence" holds something float() rejects

\* what the provider does on one attempt of _send_to_backboard
Attempt(kind, rel, conf) == [kind |-> kind, is_relevant |-> rel, confidence |-> conf]

Failure(kind) == Attempt(kind, TRUE, NoKey)

\* the exception types tenacity retries
Retried == {"HTTPStatusError", "ConnectError"}

AttemptKinds ==
    {Failure(k) : k \in Retried \cup {"TimeoutException", "unparsable",
                                      "no_assistant", "not_object"}}
    \cup {Attempt("reply", TRUE, 9), Attempt("reply", TRUE, 2),
          Attempt("reply", FALSE, 9), Attempt("reply", TRUE, NoKey),
          Attempt("reply", TRUE, BadValue)}

\* the provider's behaviour for one item: a second attempt exists only
\* after a retried first one (stop_after_attempt(2))
ProviderCalls ==
    {<<a>> : a \in {x \in AttemptKinds : x.kind \notin Retried}}
    \cup {<<a, b>> : a \in {x \in AttemptKinds : x.kind \in Retried},
                     b \in AttemptKinds}

Returned(obj, rel, conf, reason) ==
    [raised |-> FALSE, type |-> "",
     value |-> [is_object |-> obj, is_relevant |-> rel,
                confidence |-> conf, reason |-> reason]]

Raised(type) ==
    [raised |-> TRUE, type |-> type,
     value |-> [is_object |-> FALSE, is_relevant |-> TRUE,
                confidence |-> NoKey, reason |-> ""]]

\* one run of the body of _send_to_backboard
SendOnce(a) ==
    CASE a.kind \in Retried \cup {"TimeoutException"} -> Raised(a.kind)
      [] a.kind = "unparsable" -> Returned(TRUE, TRUE, 5, "Parse error")
      [] a.kind = "no_assistant" -> Returned(TRUE, TRUE, 5, "No response")
      [] a.kind = "not_object" -> Returned(FALSE, TRUE, NoKey, "")
      [] OTHER -> Returned(TRUE, a.is_relevant, a.confidence, "reply")

\* _send_to_backboard under @retry: two attempts, then RetryError
SendToBackboard(calls) ==
    LET first == SendOnce(calls[1])
    IN IF first.raised /\ first.type \in Retried
       THEN LET second == SendOnce(calls[2])
            IN IF second.raised /\ second.type \in Retried
               THEN Raised("RetryError")
               ELSE second
       ELSE first

\* how often @retry runs the body of _send_to_backboard for one item
AttemptsMade(calls) ==
    IF SendOnce(calls[1]).raised /\ SendOnce(calls[1]).type \in Retried
    THEN 2 ELSE 1

GuardResult(rel, conf, reason) ==
    [is_relevant |-> rel, confidence |-> conf, reason |-> reason]

\* RelevanceGuard.check_relevance for one memory
CheckRelevance(calls, threshold) ==
    LET r == SendToBackboard(calls)
    IN IF r.raised \/ ~r.value.is_object \/ r.value.confidence = BadValue
       THEN GuardResult(TRUE, 5, "Guard error")
       ELSE LET confidence == IF r.value.confidence = NoKey
                              THEN 5 ELSE r.value.confidence
            IN IF confidence < threshold
               THEN GuardResult(FALSE, confidence, "Below threshold")
               ELSE GuardResult(r.value.is_relevant, confidence, r.value.reason)

\* RelevanceGuard.filter_relevant_memories
FilterRelevantMemories(memories, threshold, available) ==
    IF ~available \/ memories = <<>>
    THEN memories
    ELSE SelectSeq(memories,
                   LAMBDA m : CheckRelevance(m.calls, threshold).is_relevant)

\* _apply_guard_filter: (filtered_results, blocked_count)
ApplyGuardFilter(r) ==
    IF ~r.active
    THEN [results |-> r.memories, blocked |-> 0]
    ELSE LET filtered == FilterRelevantMemories(r.memories, r.threshold, r.active)
         IN [results |-> filtered, blocked |-> Len(r.memories) - Len(filtered)]

\* the search results handed to the guard, each with the provider's
\* behaviour for it, under every configuration of the guard
GuardRequests ==
    {[mode |-> "guard", threshold |-> th, active |-> av,
      memories |-> [i \in DOMAIN f |-> [id |-> i, calls |-> f[i]]]] :
        th \in Thresholds, av \in BOOLEAN,
        f \in UNION {[1..n -> ProviderCalls] : n \in 0..MaxMemories}}

\* the guard step of one search_memory call
G_Filter ==
    /\ req.mode = "guard"
    /\ response = NoResponse
    /\ response' = [status |-> 200, body |-> ApplyGuardFilter(req)]
    /\ UNCHANGED <<data, disk, lock, tpc, targ, tloc, tres, ops,
                   db, req, h, ipc, taskResult, bacc, dels, reproj, log>>

(***************************************************************************)
(* Tool RPC endpoint: cortex_mcp/http_server.py                            *)
(***************************************************************************)
RpcMethods == {"initialize", "tools/list", "tools/call", "ping", "resources/list"}

RpcIds == {0, 1}     \* 0: the request carries no id

ToolNames == {"search_memory", "fetch_chat", "other_tool"}

\* what the backend does with the HTTP request a tool sends it
BackendOutcomes ==
    {"results", "empty", "HTTPStatusError404", "HTTPStatusError500",
     "ConnectError", "JSONDecodeError"}

\* the bodies POSTed to /mcp; valid = FALSE: not JSON, or MCPRequest rejects
\* it; arguments = "null": params.arguments is present and null
RpcRequests ==
    {[mode |-> "rpc", valid |-> v, id |-> i, method |-> m, tool |-> t,
      arguments |-> a, backend |-> b] :
        v \in BOOLEAN, i \in RpcIds, m \in RpcMethods, t \in ToolNames,
        a \in {"object", "null"}, b \in BackendOutcomes}

ToolText(text) == [raised |-> FALSE, text |-> text]

ToolRaised(type) == [raised |-> TRUE, text |-> type]

\* execute_search_memory: every exception ends in a returned string
ExecuteSearchMemory(backend) ==
    CASE backend = "results" -> ToolText("Found relevant conversation(s)")
      [] backend = "empty" -> ToolText("No conversations found")
      [] backend \in {"HTTPStatusError404", "HTTPStatusError500", "ConnectError"}
            -> ToolText("Error searching memory")
      [] OTHER -> ToolText("Error executing search")

\* execute_fetch_chat
ExecuteFetchChat(backend) ==
    CASE backend \in {"results", "empty"} -> ToolText("Conversation Details")
      [] backend = "HTTPStatusError404" -> ToolText("Conversation not found")
      [] OTHER -> ToolText("Error fetching chat")

\* execute_tool: arguments.get raises when arguments is null
ExecuteTool(name, arguments, backend) ==
    IF name \notin {"search_memory", "fetch_chat"}
    THEN ToolText("Unknown tool")
    ELSE IF arguments = "null"
    THEN ToolRaised("AttributeError")
    ELSE IF name = "search_memory"
    THEN ExecuteSearchMemory(backend)
    ELSE ExecuteFetchChat(backend)

RpcResult(id, text) ==
    [id |-> id, kind |-> "result", code |-> 0, text |-> text]

RpcError(id, code, message) ==
    [id |-> id, kind |-> "error", code |-> code, text |-> message]

\* handle_mcp_request
HandleMcpRequest(r) ==
    CASE r.method = "initialize" -> RpcResult(r.id, "serverInfo")
      [] r.method = "tools/list" -> RpcResult(r.id, "tools")
      [] r.method = "tools/call" ->
            LET result == ExecuteTool(r.tool, r.arguments, r.backend)
            IN IF result.raised
               THEN RpcError(r.id, -32603, result.text)
               ELSE RpcResult(r.id, result.text)
      [] r.method = "ping" -> RpcResult(r.id, "")
      [] OTHER -> RpcError(r.id, -32601, "Method not found")

\* mcp_post
McpPost(r) ==
    IF ~r.valid
    THEN [status |-> 500, body |-> RpcError(0, -32603, "ValidationError")]
    ELSE [status |-> 200, body |-> HandleMcpRequest(r)]

\* one POST /mcp request
M_Post ==
    /\ req.mode = "rpc"
    /\ response = NoResponse
    /\ response' = McpPost(req)
    /\ UNCHANGED <<data, disk, lock, tpc, targ, tloc, tres, ops,
                   db, req, h, ipc, taskResult, bacc, dels, reproj, log>>

(***************************************************************************)
(* rerank_by_scores: services/backboard_evaluator.py.  Scores in tenths.   *)
(***************************************************************************)
MaxResults == 2

MaxScores == 2

\* SearchResultItem, reduced to the fields rerank_by_scores reads or writes
ResultItems ==
    {[conversation_id |-> c, score |-> s, relevance_score |-> r] :
        c \in {1, 2}, s \in {4, 7}, r \in {None, Some(5)}}

\* RelevanceScore
RelevanceScores == {[conversation_id |-> c, score |-> s] : c \in {1, 2}, s \in {3, 9}}

RerankRequests ==
    {[mode |-> "rerank", results |-> rs, relevance_scores |-> ss] :
        rs \in SeqsUpTo(ResultItems, MaxResults),
        ss \in SeqsUpTo(RelevanceScores, MaxScores)}

\* score_map: the dict comprehension keeps the last score of an id
RECURSIVE ScoreMap(_, _)
ScoreMap(acc, scores) ==
    IF scores = <<>> THEN acc
    ELSE ScoreMap((Head(scores).conversation_id :> Head(scores).score) @@ acc,
                  Tail(scores))

\* the loop that attaches the relevance scores to the results
AttachScores(results, score_map) ==
    [i \in DOMAIN results |->
        IF results[i].conversation_id \in DOMAIN score_map
        THEN [results[i] EXCEPT !.relevance_score =
                                    Some(score_map[results[i].conversation_id])]
        ELSE results[i]]

\* the sort key (r.relevance_score or 0.0, r.score)
SortKey(r) ==
    <<IF r.relevance_score = None THEN 0 ELSE r.relevance_score[1], r.score>>

KeyLess(a, b) == a[1] < b[1] \/ (a[1] = b[1] /\ a[2] < b[2])

RECURSIVE InsertDescending(_, _)
InsertDescending(acc, x) ==
    IF acc = <<>> THEN <<x>>
    ELSE IF KeyLess(SortKey(Head(acc)), SortKey(x))
    THEN <<x>> \o acc
    ELSE <<Head(acc)>> \o InsertDescending(Tail(acc), x)

RECURSIVE SortedFrom(_, _)
SortedFrom(acc, rest) ==
    IF rest = <<>> THEN acc
    ELSE SortedFrom(InsertDescending(acc, Head(rest)), Tail(rest))

\* the same list in input order, as if the sort were left out
SortedKeepingInput(results) == results

\* sorted(results, key=..., reverse=True): descending, equal keys keep
\* their input order
SortedDescending(results) == SortedFrom(<<>>, results)

rerank_by_scores(results, relevance_scores) ==
    SortedDescending(AttachScores(results, ScoreMap(<<>>, relevance_scores)))

\* one call of rerank_by_scores
K_Rerank ==
    /\ req.mode = "rerank"
    /\ response = NoResponse
    /\ response' = [status |-> 200,
                    body |-> [results |-> rerank_by_scores(req.results,
                                                           req.relevance_scores)]]
    /\ UNCHANGED <<data, disk, lock, tpc, targ, tloc, tres, ops,
                   db, req, h, ipc, taskResult, bacc, dels, reproj, log>>

(***************************************************************************)
(* Specifications                                                          *)
(***************************************************************************)
InitVSIdle ==
    /\ lock = NoThread
    /\ tpc = [t \in Threads |-> "idle"]
    /\ targ = [t \in Threads |-> NoArg]
    /\ tloc = [t \in Threads |-> EmptyView]
    /\ tres = [t \in Threads |-> NoRes]

InitIngestIdle ==
    /\ db = EmptyDb
    /\ h = NewHandler(1)
    /\ ipc = <<>>
    /\ taskResult = <<>>
    /\ bacc = [successful |-> 0, failed |-> 0, results |-> <<>>]
    /\ response = NoResponse
    /\ dels = <<>>
    /\ reproj = <<>>
    /\ log = <<>>

\* one ingest request against an empty store, with DELETE requests arriving
Init ==
    /\ InitVSIdle
    /\ ops = MaxOps
    /\ disk = AbsentFile
    /\ data = Load(disk)
    /\ InitIngestIdle
    /\ req \in Requests

Next ==
    \/ H_Parse
    \/ \E i \in 1..MaxItems : I_Start(i)
    \/ \E i \in 1..MaxItems : I_Summarized(i)
    \/ \E i \in 1..MaxItems : I_Embedded(i)
    \/ H_Collect
    \/ \E cid \in DeleteTargets : D_Delete(cid)

Spec == Init /\ [][Next]_vars

\* one file of up to MaxBundle conversations, no other request
InitBatches ==
    /\ InitVSIdle
    /\ ops = MaxOps
    /\ disk = AbsentFile
    /\ data = Load(disk)
    /\ InitIngestIdle
    /\ req \in BundleRequests

NextBatches ==
    \/ H_Parse
    \/ \E i \in 1..MaxBundle : I_Start(i)
    \/ \E i \in 1..MaxBundle : I_Summarized(i)
    \/ \E i \in 1..MaxBundle : I_Embedded(i)
    \/ H_Collect

SpecBatches == InitBatches /\ [][NextBatches]_vars

\* NumThreads threads calling one VectorStoreService
InitVS ==
    /\ InitVSIdle
    /\ ops = 0
    /\ disk \in VSInitialFiles
    /\ data = Load(disk)
    /\ InitIngestIdle
    /\ req = [mode |-> "single", files |-> <<>>, auto |-> FALSE]

NextVS ==
    \E t \in Threads :
        \/ T_Call(t)
        \/ T_Acquire(t)
        \/ T_UpsertWrite(t)
        \/ T_DeletePop(t)
        \/ T_Save(t)
        \/ T_Return(t)
        \/ T_SearchIds(t)
        \/ T_SearchRead(t)
        \/ T_SearchRelease(t)
        \/ T_SearchCompute(t)
        \/ T_Count(t)

SpecVS == InitVS /\ [][NextVS]_vars
\* one search request against the hosted vector store
InitSearch ==
    /\ InitVSIdle
    /\ ops = MaxOps
    /\ disk = AbsentFile
    /\ data = Load(disk)
    /\ InitIngestIdle
    /\ req \in SearchRequests

NextSearch == S_Search

SpecSearch == InitSearch /\ [][NextSearch]_vars

\* a search request against a stored corpus, with DELETE requests arriving
\* before or after it; DELETE leaves the hosted index alone, so the hits of
\* the request may name files of conversations that are gone
InitStale ==
    /\ InitVSIdle
    /\ ops = MaxOps
    /\ disk = AbsentFile
    /\ data = Load(disk)
    /\ h = NewHandler(1)
    /\ ipc = <<>>
    /\ taskResult = <<>>
    /\ bacc = [successful |-> 0, failed |-> 0, results |-> <<>>]
    /\ response = NoResponse
    /\ dels = <<>>
    /\ reproj = <<>>
    /\ log = <<>>
    /\ req \in SearchRequests
    /\ \E m \in 1..2 : db = Corpus(m)

NextStale ==
    \/ S_Search
    \/ \E cid \in DeleteTargets : D_Delete(cid)

SpecStale == InitStale /\ [][NextStale]_vars

\* one caller, a store that starts from one of the snapshot files
InitVSSeq ==
    /\ InitVSIdle
    /\ ops = MaxOps
    /\ disk \in VSInitialFiles
    /\ data = Load(disk)
    /\ InitIngestIdle
    /\ req = [mode |-> "single", files |-> <<>>, auto |-> FALSE]

NextVSSeq ==
    \/ \E a \in VSUpsertArgs : Q_Upsert(a)
    \/ \E i \in VSIds : Q_Delete(i)
    \/ \E a \in SeqSearchArgs : Q_Search(a)
    \/ Q_Count

SpecVSSeq == InitVSSeq /\ [][NextVSSeq]_vars

\* one reprocess request against a corpus of up to MaxCorpus conversations
InitProj ==
    /\ InitVSIdle
    /\ ops = MaxOps
    /\ disk = AbsentFile
    /\ data = Load(disk)
    /\ h = NewHandler(1)
    /\ ipc = <<>>
    /\ taskResult = <<>>
    /\ bacc = [successful |-> 0, failed |-> 0, results |-> <<>>]
    /\ response = NoResponse
    /\ dels = <<>>
    /\ reproj = <<>>
    /\ log = <<>>
    /\ req = [mode |-> "reprocess"]
    /\ \/ \E m \in 0..MaxCorpus : db = Corpus(m)
       \/ db = ApplyProjection(Corpus(2), [c \in DOMAIN Corpus(2).embs |-> 1])

NextProj == R_Reprocess

SpecProj == InitProj /\ [][NextProj]_vars

\* one search_memory call whose results go through the relevance guard
InitGuard ==
    /\ InitVSIdle
    /\ ops = MaxOps
    /\ disk = AbsentFile
    /\ data = Load(disk)
    /\ InitIngestIdle
    /\ req \in GuardRequests

NextGuard == G_Filter

SpecGuard == InitGuard /\ [][NextGuard]_vars

\* one JSON-RPC request to the tool endpoint
InitRpc ==
    /\ InitVSIdle
    /\ ops = MaxOps
    /\ disk = AbsentFile
    /\ data = Load(disk)
    /\ InitIngestIdle
    /\ req \in RpcRequests

NextRpc == M_Post

SpecRpc == InitRpc /\ [][NextRpc]_vars

\* one call of rerank_by_scores
InitRerank ==
    /\ InitVSIdle
    /\ ops = MaxOps
    /\ disk = AbsentFile
    /\ data = Load(disk)
    /\ InitIngestIdle
    /\ req \in RerankRequests

NextRerank == K_Rerank

SpecRerank == InitRerank /\ [][NextRerank]_vars



(***************************************************************************)
(* Properties                                                              *)
(***************************************************************************)
MutatingPcs == {"u_write", "u_save", "u_saved", "d_pop", "d_save", "d_saved"}
ReadingPcs == {"s_ids", "s_docs", "s_metas", "s_matrix", "s_unlock", "c_read"}

\* C1: when an upsert, or a delete of a present id, has written its
\* snapshot successfully, loading the snapshot file into a fresh store gives
\* exactly the in-memory index.
C1_SnapshotAgreesAfterMutation ==
    \A t \in Threads : tpc[t] \in {"u_saved", "d_saved"} => Load(disk) = data

C1_Witness ==
    \E t \in Threads :
        /\ tpc[t] = "u_saved"
        /\ Len(data) = 2
        /\ \E i \in 1..2 : data[i].metadata # EmptyDict

\* C2: a search that has copied ids, documents, metadata and vectors holds
\* the projection of one index state (the current one, which no mutation
\* can change while the search is inside the lock), and no reader is inside
\* the lock while an upsert or delete is between its first write and its
\* return.
C2_ReadersSeeOneState ==
    /\ \A t \in Threads : tpc[t] = "s_unlock" => tloc[t] = View(data)
    /\ \A t, u \in Threads :
         (t # u /\ tpc[t] \in ReadingPcs) => tpc[u] \notin MutatingPcs

C2_Witness ==
    \E t, u \in Threads :
        /\ tpc[t] = "s_unlock"
        /\ Len(tloc[t].ids) = 2
        /\ tpc[u] = "u_lock"
        /\ targ[u].entry # Get(data, targ[u].entry.id)

MessagesOf(cid) == { m \in db.msgs : m.conversation_id = cid }

\* C3: after a successful DELETE /api/chats/{id} no Conversation, Message,
\* Embedding or index entry exists for that id.
C3_DeleteCascadesToIndex ==
    \A k \in 1..Len(dels) :
        dels[k].status = 200 =>
            /\ dels[k].id \notin DOMAIN db.convs
            /\ MessagesOf(dels[k].id) = {}
            /\ dels[k].id \notin DOMAIN db.embs
            /\ ~Has(data, dels[k].id)

\* C4: the response of a batch ingest satisfies
\* successful + failed = total_processed = the number of files.
C4_BatchCountsAddUp ==
    (h.pc = "done" /\ req.mode = "batch") =>
        /\ response.status = 200
        /\ response.body.successful + response.body.failed = response.body.total_processed
        /\ response.body.total_processed = Len(req.files)
        /\ Len(response.body.conversations) = Len(req.files)

C4_Witness ==
    /\ h.pc = "done"
    /\ req.mode = "batch"
    /\ response.body.successful = 1
    /\ response.body.failed = 1
    /\ \E k \in 1..2 : response.body.conversations[k].error = Some("Failed to parse HTML file")

Healthy(p) == NormalizeConversation(p).ok /\ p.env \in {"ok", "summ_fail"}

\* a single-file request whose file holds three conversations, exactly one
\* of them without messages, the other two processed without any failure
ThreeWithOneEmpty ==
    /\ req.mode = "single"
    /\ Len(req.files[1].convs) = 3
    /\ EndsWithHtml(req.files[1].filename)
    /\ req.files[1].decodable
    /\ req.files[1].format # "none"
    /\ Cardinality({ i \in 1..3 : req.files[1].convs[i].messages = <<>> }) = 1
    /\ \A i \in 1..3 : req.files[1].convs[i].messages # <<>> => Healthy(req.files[1].convs[i])

\* C5: ingesting one bundle of 3 conversations, one of them with zero
\* messages, answers 200 with total_processed = 3, successful = 2, failed = 1.
C5_BundleReportsCounts ==
    (h.pc = "done" /\ ThreeWithOneEmpty) =>
        /\ response.status = 200
        /\ {"total_processed", "successful", "failed"} \subseteq DOMAIN response.body
        /\ response.body.total_processed = 3
        /\ response.body.successful = 2
        /\ response.body.failed = 1

WasDeleted(cid) == \E k \in 1..Len(dels) : dels[k] = [id |-> cid, status |-> 200]

\* the IngestResponse r reports a conversation that is stored with exactly
\* r.message_count messages (or that a DELETE request has removed since)
ReportedIsPersisted(r) ==
    r.success =>
        \/ WasDeleted(r.conversation_id[1])
        \/ /\ r.conversation_id[1] \in DOMAIN db.convs
           /\ Cardinality(MessagesOf(r.conversation_id[1]))
                = db.convs[r.conversation_id[1]].message_count

\* C6: every stored Conversation has message_count equal to the number of
\* its Message rows, and every item reported as ingested (by its task, in
\* the response of the single endpoint, in the conversations of the batch
\* response) names such a stored Conversation.
C6_MessageCountMatchesRows ==
    /\ \A c \in DOMAIN db.convs :
         db.convs[c].message_count = Cardinality(MessagesOf(c))
    /\ \A i \in DOMAIN taskResult :
         taskResult[i].kind = "ok" =>
            /\ ReportedIsPersisted(taskResult[i].value)
            /\ \/ WasDeleted(taskResult[i].value.conversation_id[1])
               \/ taskResult[i].value.message_count
                    = Cardinality(MessagesOf(taskResult[i].value.conversation_id[1]))
    /\ \A k \in 1..Len(bacc.results) : ReportedIsPersisted(bacc.results[k])
    /\ (h.pc = "done" /\ req.mode = "single" /\ response.status = 200)
          => ReportedIsPersisted(response.body)

C6_Witness ==
    /\ h.pc = "done"
    /\ response.status = 200
    /\ \E c \in DOMAIN db.convs :
         /\ db.convs[c].title = "hi there"
         /\ db.convs[c].message_count = 2
         /\ Cardinality(MessagesOf(c)) = 2

\* C7: the Messages of every stored conversation carry the sequence numbers
\* 0, 1, ..., n-1 in message order.
C7_DenseSequenceNumbers ==
    \A c \in DOMAIN db.convs :
        \A m \in MessagesOf(c) : m.sequence_number = m.id[2] - 1

ReportsAFailure(r) ==
    \/ r.status # 200
    \/ /\ "error" \in DOMAIN r.body
       /\ r.body.error # None
    \/ /\ "conversations" \in DOMAIN r.body
       /\ \E k \in 1..Len(r.body.conversations) : ~r.body.conversations[k].success

\* C8: when the embedder fails for a conversation of a bundle, nothing is
\* stored for it, the response of the request records a failed item, and
\* the conversations of the bundle that were persisted stay persisted.
C8_EmbedFailureIsReported ==
    (h.pc = "done" /\ req.mode = "single") =>
        \A i \in DOMAIN taskResult :
            taskResult[i] = [kind |-> "none", cause |-> "embedding"] =>
                /\ ConvId(1, i) \notin DOMAIN db.convs
                /\ MessagesOf(ConvId(1, i)) = {}
                /\ ConvId(1, i) \notin DOMAIN db.embs
                /\ ~Has(data, ConvId(1, i))
                /\ ReportsAFailure(response)
                /\ \A j \in DOMAIN taskResult :
                     taskResult[j].kind = "ok" =>
                        ConvId(1, j) \in DOMAIN db.convs \/ WasDeleted(ConvId(1, j))

\* C9: when the request is answered every task of the file has run to its
\* end, and every conversation whose own pipeline met no failure is
\* persisted, indexed and counted in the response, whatever happened to the
\* other conversations of its batch or of earlier batches.
C9_FailuresAreIsolated ==
    h.pc = "done" =>
        \A i \in DOMAIN taskResult :
            /\ taskResult[i].kind # "pending"
            /\ Healthy(h.parsed[i]) =>
                 /\ taskResult[i].kind = "ok"
                 /\ ConvId(1, i) \in DOMAIN db.convs
                 /\ ConvId(1, i) \in DOMAIN db.embs
                 /\ Has(data, ConvId(1, i))
                 /\ response.status = 200
                 /\ response.body.success
                 /\ \E k \in 1..Len(h.results) : h.results[k] = taskResult[i].value

C9_Witness ==
    /\ h.pc = "done"
    /\ Len(h.parsed) = 4
    /\ taskResult[1].kind = "exception"
    /\ taskResult[1].cause = "normalize"
    /\ taskResult[2].kind = "exception"
    /\ taskResult[2].cause = "persist"
    /\ taskResult[3].kind = "ok"
    /\ taskResult[4].kind = "ok"
    /\ {13, 14} = DOMAIN db.convs

\* the file of a single-file request is HTML of a known vendor and holds
\* no conversation with messages
ZeroParseable ==
    /\ req.mode = "single"
    /\ EndsWithHtml(req.files[1].filename)
    /\ req.files[1].decodable
    /\ req.files[1].format # "none"
    /\ \A i \in 1..Len(req.files[1].convs) : req.files[1].convs[i].messages = <<>>

AddedByRequest ==
    DOMAIN db.convs \cup { dels[k].id : k \in { j \in 1..Len(dels) : dels[j].status = 200 } }

\* C11: an ingest request that has stored at least one conversation calls
\* the re-projection exactly once when auto_reprocess is set or it added
\* more than one conversation, and never otherwise.
C11_ReprojectsWhenDue ==
    (h.pc = "done" /\ response.status = 200 /\ AddedByRequest # {}) =>
        Len(reproj) = IF req.auto \/ Cardinality(AddedByRequest) > 1 THEN 1 ELSE 0

\* the largest score among the hits of file f
MaxHitScore(hits, f) ==
    LET ss == { hits[k].score : k \in { j \in 1..Len(hits) : hits[j].file_id = Some(f) } }
    IN CHOOSE m \in ss : \A x \in ss : x <= m

\* C12: the search response lists its items by score descending without
\* duplicate conversations, and when the index returns hits for a
\* conversation the search answers with results in which every item
\* carries the maximum of the scores of its hits.
C12_SearchOrderedAndDeduplicated ==
    (req.mode = "search" /\ response # NoResponse) =>
        /\ response.status = 200
        /\ LET rs == response.body.results
           IN /\ \A i, j \in 1..Len(rs) : i < j => rs[i].score >= rs[j].score
              /\ \A i, j \in 1..Len(rs) :
                    i # j => rs[i].conversation_id # rs[j].conversation_id
              /\ \A i \in 1..Len(rs) :
                    rs[i].score = MaxHitScore(req.hits, rs[i].file_id)

\* C13: when the caller upserts an id and deletes it with the next call,
\* the delete reports a removal, count() is exactly one less than before
\* the delete, and a search made next returns no result with that id.
C13_DeleteRemovesFromSearchAndCount ==
    \A i \in 1..Len(log) :
        (i < Len(log) /\ log[i].op = "upsert" /\ log[i + 1].op = "delete"
           /\ log[i + 1].id = log[i].id) =>
            /\ log[i + 1].value
            /\ log[i + 1].count = log[i].count - 1
            /\ (i + 2 <= Len(log) /\ log[i + 2].op = "search") =>
                 \A k \in 1..Len(log[i + 2].value) :
                     log[i + 2].value[k].conversation_id # log[i].id

C13_Witness ==
    /\ Len(log) = 3
    /\ log[1].op = "upsert" /\ log[1].id = 2 /\ log[1].v = <<1, 0>> /\ log[1].count = 2
    /\ log[2].op = "delete" /\ log[2].id = 2 /\ log[2].status = "ok"
    /\ log[3].op = "search" /\ log[3].q = <<1, 0>> /\ log[3].k = 1
    /\ Len(log[3].value) = 1

\* the score s is exactly 1
IsOne(s) == s.num > 0 /\ s.num * s.num = s.den2

\* call i upserts a non-zero vector and call i + 1 is search(v, 1, 0) with
\* that vector
UpsertThenSearchSame(i) ==
    /\ i < Len(log)
    /\ log[i].op = "upsert"
    /\ Dot(log[i].v, log[i].v) # 0
    /\ log[i + 1].op = "search"
    /\ log[i + 1].q = log[i].v
    /\ log[i + 1].k = 1

C15_StrictOrderTiesById ==
    \A i \in 1..Len(log) :
        (log[i].op = "search" /\ log[i].status = "ok") =>
            \A a, b \in 1..Len(log[i].value) :
                a < b =>
                    \/ ScoreLess(log[i].value[b].score, log[i].value[a].score)
                    \/ /\ ~ScoreLess(log[i].value[a].score, log[i].value[b].score)
                       /\ log[i].value[a].conversation_id < log[i].value[b].conversation_id

\* call i is a search whose query has another dimension than the vectors
\* the store holds, or than the vectors it is built for when it holds none
MismatchedSearch(i) ==
    /\ log[i].op = "search"
    /\ Len(log[i].q) # 2

\* C16: every search with a query of another dimension is
\* rejected with an error and returns no scored results.
C16_MismatchedQueryRejected ==
    \A i \in 1..Len(log) :
        MismatchedSearch(i) =>
            /\ log[i].status = "error"
            /\ log[i].value = <<>>

\* the cluster ids a projection can assign
RealClusterIds == 0..(MAX_CLUSTERS - 1)

\* the labels of the most recent successful projection (none: no labels)
RECURSIVE LastLabels(_)
LastLabels(runs) ==
    IF runs = <<>> THEN <<>>
    ELSE IF runs[Len(runs)].status = 200 THEN runs[Len(runs)].labels
    ELSE LastLabels(SubSeq(runs, 1, Len(runs) - 1))

\* C17: when a request has been answered, every conversation the most
\* recent successful projection has seen carries the cluster id and label
\* of that run, and every other conversation carries the sentinel
\* "unclustered", which is no real cluster id.
C17_ClusterIdSentinelOrCurrent ==
    h.pc = "done" =>
        \A c \in DOMAIN db.convs :
            IF c \in DOMAIN LastLabels(reproj)
            THEN /\ db.convs[c].cluster_id = LastLabels(reproj)[c]
                 /\ db.convs[c].cluster_name = "Cluster " \o ToString(LastLabels(reproj)[c])
            ELSE /\ db.convs[c].cluster_id \notin RealClusterIds
                 /\ db.convs[c].cluster_name = "Unclustered"

\* C18: after a successful projection of a corpus of M >= 2 conversations
\* every stored conversation has the cluster id the run gave it, a value
\* in [0, K) with K = min(5, M).
C18_ClusterIdsWithinK ==
    (req.mode = "reprocess" /\ response # NoResponse /\ response.status = 200) =>
        LET M == Cardinality(DOMAIN db.convs)
        IN /\ M >= 2
           /\ response.body.n_clusters = Min(5, M)
           /\ \A c \in DOMAIN db.convs :
                /\ db.convs[c].cluster_id \in 0..(Min(5, M) - 1)
                /\ db.convs[c].cluster_id = reproj[1].labels[c]

C18_Witness ==
    /\ req.mode = "reprocess"
    /\ response # NoResponse
    /\ response.status = 200
    /\ Cardinality(DOMAIN db.convs) = 6
    /\ \E c \in DOMAIN db.convs : db.convs[c].cluster_id = 4

\* C19: a re-projection over fewer than 2 embeddings is answered with HTTP
\* 422 and a detail asking for at least 2 conversations, and changes
\* nothing in the store.
C19_TooFewEmbeddingsIs422 ==
    (req.mode = "reprocess" /\ response # NoResponse /\ Cardinality(DOMAIN db.embs) < 2) =>
        /\ response.status = 422
        /\ response.detail = "Need at least 2 conversations to perform clustering"
        /\ db = Corpus(Cardinality(DOMAIN db.embs))

C19_Witness ==
    /\ req.mode = "reprocess"
    /\ response # NoResponse
    /\ response.status = 422
    /\ Cardinality(DOMAIN db.embs) = 1

\* an item's provider call ended in an error: the last attempt gave no reply
EndsInError(calls) == calls[Len(calls)].kind # "reply"

\* C20: whatever the threshold, an item whose relevance call ended in an
\* error (a transport or HTTP error, or a reply that cannot be used) is
\* still among the results the guard returns
C20_GateFailsOpen ==
    (req.mode = "guard" /\ response # NoResponse) =>
        \A i \in 1..Len(req.memories) :
            EndsInError(req.memories[i].calls) =>
                \E j \in 1..Len(response.body.results) :
                    response.body.results[j].id = i

\* the handling of the request met an internal failure: the body was
\* rejected, the tool raised, or the backend call of the tool failed
RpcFailure(r) ==
    \/ ~r.valid
    \/ /\ r.method = "tools/call"
       /\ r.tool \in {"search_memory", "fetch_chat"}
       /\ \/ r.arguments = "null"
          \/ r.backend \in {"HTTPStatusError500", "ConnectError", "JSONDecodeError"}

\* C21: every internal failure while handling a JSON-RPC request, a failure
\* of the called tool included, is answered with a JSON-RPC error of code
\* -32603 and never with a success result
C21_InternalFailureIsError32603 ==
    (req.mode = "rpc" /\ response # NoResponse /\ RpcFailure(req)) =>
        /\ response.body.kind = "error"
        /\ response.body.code = -32603

\* some hit of the request names a file
HasFileHit(r) == \E k \in 1..Len(r.hits) : r.hits[k].file_id # None

InKeyOrder(rs) ==
    \A i \in 1..Len(rs) : \A j \in 1..Len(rs) :
        i < j => ~KeyLess(SortKey(rs[i]), SortKey(rs[j]))

PersistFailed(i) ==
    /\ i \in DOMAIN taskResult
    /\ taskResult[i] = [kind |-> "exception", cause |-> "persist"]

\* C24: a conversation whose persist transaction failed leaves no
\* Conversation, Message or Embedding row behind, and no entry in the index
C24_FailedPersistLeavesNoRows ==
    \A i \in 1..MaxBundle :
        PersistFailed(i) =>
            LET cid == ConvId(h.fileIdx, i)
            IN /\ cid \notin DOMAIN db.convs
               /\ \A m \in db.msgs : m.conversation_id # cid
               /\ cid \notin DOMAIN db.embs
               /\ ~Has(data, cid)

\* a persist failure next to a conversation of the same file that is stored
C24_Witness ==
    \E i \in 1..MaxBundle :
        /\ PersistFailed(i)
        /\ \E j \in 1..MaxBundle : ConvId(h.fileIdx, j) \in DOMAIN db.convs

\* task i of the file in progress is finished and its index upsert failed
UpsertFailed(i) ==
    /\ h.pc = "gather"
    /\ i \in DOMAIN ipc
    /\ ipc[i] = "done"
    /\ h.parsed[i].env = "index_fail"

\* C25: a conversation whose index upsert failed after the persist step
\* stays persisted (until a DELETE request removes it) and its task reports
\* success, so the gather of its batch does not fail because of it
C25_UpsertFailureNotFatal ==
    \A i \in 1..MaxItems :
        UpsertFailed(i) =>
            LET cid == ConvId(h.fileIdx, i)
            IN /\ cid \in DOMAIN db.convs \/ WasDeleted(cid)
               /\ cid \in DOMAIN db.embs \/ WasDeleted(cid)
               /\ taskResult[i].kind = "ok"
               /\ taskResult[i].value.success
               /\ taskResult[i].value.conversation_id = Some(cid)

\* the upsert of the first conversation failed and the second is ingested too
C25_Witness ==
    /\ UpsertFailed(1)
    /\ ConvId(h.fileIdx, 1) \in DOMAIN db.convs
    /\ 2 \in DOMAIN ipc
    /\ ipc[2] = "done"
    /\ taskResult[2].kind = "ok"
    /\ ConvId(h.fileIdx, 2) \in DOMAIN db.convs
    /\ disk # DumpJson(data)

\* the index entry of cid as the snapshot file holds it
InSnapshot(cid) == Has(Load(disk), cid)

\* C26: after a successful re-projection every conversation it covered has
\* its entry in the vector index, also one whose upsert failed at ingest
C26_ReprojectionRestoresIndex ==
    \A k \in 1..Len(reproj) :
        reproj[k].status = 200 =>
            \A cid \in DOMAIN reproj[k].labels :
                cid \in DOMAIN db.convs => InSnapshot(cid)

\* the pipelines that were created by a gather and have not finished
InFlight == {i \in DOMAIN ipc : ipc[i] \in {"start", "summarizing", "embedding"}}

BatchIndex(i) == (i - 1) \div BATCH_SIZE

\* C27: at most BATCH_SIZE = 3 pipelines of a file are in flight, and a
\* pipeline of a later batch exists only when every pipeline of the earlier
\* batches has finished
C27_BatchesInOrderBounded ==
    /\ Cardinality(InFlight) <= BATCH_SIZE
    /\ \A i \in DOMAIN ipc : \A j \in DOMAIN ipc :
           (BatchIndex(i) < BatchIndex(j) /\ ipc[j] # "waiting") => ipc[i] = "done"

\* the second batch runs after a first batch of three
C27_Witness ==
    /\ h.pc = "gather"
    /\ Len(ipc) = BATCH_SIZE + 1
    /\ ipc[BATCH_SIZE + 1] = "summarizing"
    /\ \A i \in 1..BATCH_SIZE : ipc[i] = "done"

\* C28: the guard makes at most one attempt per item, and an item whose
\* first attempt failed is let through whatever a second attempt would say
C28_GateDoesNotRetry ==
    (req.mode = "guard" /\ response # NoResponse /\ req.active) =>
        \A i \in 1..Len(req.memories) :
            /\ AttemptsMade(req.memories[i].calls) <= 1
            /\ SendOnce(req.memories[i].calls[1]).raised =>
                   \E j \in 1..Len(response.body.results) :
                       response.body.results[j].id = i

\* C29: a re-projection run that fails commits none of its writes: every
\* conversation keeps its coordinates, magnitude, cluster id and cluster name
C29_FailedReprojectionWritesNothing ==
    [][(/\ Len(reproj') = Len(reproj) + 1
        /\ reproj'[Len(reproj')].status # 200)
       => db' = db]_vars

\* a run failed over a corpus that an earlier run had projected
C29_Witness ==
    /\ req.mode = "reprocess"
    /\ response # NoResponse
    /\ response.status = 500
    /\ Len(reproj) = 1
    /\ \A c \in DOMAIN db.convs : db.convs[c].cluster_id = 1
    /\ \A c \in DOMAIN db.embs : db.embs[c].magnitude = 2
    /\ Cardinality(DOMAIN db.embs) = 2

\* C30: an upsert or delete whose snapshot write failed leaves the in-memory
\* index as it was, so later searches and counts do not see the mutation
C30_FailedSaveLeavesMemory ==
    [][(/\ Len(log') = Len(log) + 1
        /\ log'[Len(log')].op \in {"upsert", "delete"}
        /\ log'[Len(log')].status = "error")
       => /\ data' = data
          /\ Count(data') = Count(data)]_vars

====
